---------------------------- MODULE Spec2Model ----------------------------
(***************************************************************************)
(* A model of the mtg_price_predictor preprocessing code:                  *)
(*   - merge_data        (src/src/data_preprocessing/merge_data.py)        *)
(*   - clean_data        (src/src/data_preprocessing/clean_data.py)        *)
(*   - remove_outliers   (src/src/data_preprocessing/clean_data.py)        *)
(*   - run_pipeline      (src/src/pipeline.py)                             *)
(*   - clean_logs        (src/src/utils/clean_logs.py)                     *)
(*                                                                         *)
(* A pandas DataFrame is a record [cols, rows]: cols is the set of column  *)
(* names and rows a sequence of functions from column name to value.       *)
(* Every value is an integer; NaN / None / pd.NA is NULL, a boolean is 1   *)
(* or 0.  Calendar dates are day numbers, timestamps are ticks.  Prices    *)
(* are exact (no floating-point rounding is modelled).                     *)
(***************************************************************************)
EXTENDS Integers, Sequences, FiniteSets, TLC

VARIABLES
    pc,               \* position of the running function
    outcome,          \* "running", "returned", "None" or the exception raised
    market_data,      \* the caller's dict of DataFrames (objects the caller still holds)
    card_attributes,  \* local binding card_attributes / card_df
    market_prices,    \* local binding market_prices
    sales_history,    \* local binding sales_history
    listings,         \* local binding listings
    relevant_sku,     \* merge_data: set of card_sku_id in scope
    merged,           \* merge_data: merged ; clean_data: merged_df
    dropped,          \* merge_data: content of the dropped_sku_ids file
    df,               \* remove_outliers: the input frame df
    df_cleaned,       \* remove_outliers: result of the first application
    df_again,         \* remove_outliers: result of filtering df_cleaned again
    method,           \* remove_outliers: the method argument
    pipeline,         \* run_pipeline: its position, the steps done, the CSVs written
    logs              \* clean_logs: the log directory, log_files, keep_latest

vars == << pc, outcome, market_data, card_attributes, market_prices, sales_history,
           listings, relevant_sku, merged, dropped, df, df_cleaned, df_again, method,
           pipeline, logs >>

-----------------------------------------------------------------------------
(* Bounds of the model *)

NumSkus == 2        \* card_sku_id values 1..NumSkus
NumDays == 2        \* the configured window holds the dates 0..NumDays-1
TicksPerDay == 2    \* timestamps per calendar day
MaxRows == 2        \* rows per market table given to merge_data
MaxTotalRows == 3   \* rows of the three market tables together

Skus == 1 .. NumSkus
Times == 0 .. NumDays * TicksPerDay     \* the last tick lies after the window

-----------------------------------------------------------------------------
(* Values *)

NULL == -1
IsNa(v) == v = NULL
B(b) == IF b THEN 1 ELSE 0
FillNa(v, w) == IF IsNa(v) THEN w ELSE v
\* comparisons with NaN are False
Gt(a, b) == ~IsNa(a) /\ ~IsNa(b) /\ a > b
Le(a, b) == ~IsNa(a) /\ ~IsNa(b) /\ a <= b
Mul(a, b) == IF IsNa(a) \/ IsNa(b) THEN NULL ELSE a * b

-----------------------------------------------------------------------------
(* DataFrames *)

Frame(cols, rows) == [cols |-> cols, rows |-> rows]
EmptyFrame == Frame({}, << >>)
NRows(t) == Len(t.rows)

\* t[name] = f(i) for every row i  (column assignment)
Assign(t, name, f(_)) ==
    Frame(t.cols \cup {name},
          [i \in DOMAIN t.rows |->
              [c \in t.cols \cup {name} |-> IF c = name THEN f(i) ELSE t.rows[i][c]]])

\* t[[cols]]
Project(t, cols) ==
    Frame(cols, [i \in DOMAIN t.rows |-> [c \in cols |-> t.rows[i][c]]])

\* t.drop(columns=names)
DropColumns(t, names) == Project(t, t.cols \ names)

\* t[mask] with mask a predicate of the row
Where(t, keep(_)) == Frame(t.cols, SelectSeq(t.rows, keep))

RECURSIVE Flatten(_)
Flatten(ss) == IF ss = << >> THEN << >> ELSE Head(ss) \o Flatten(Tail(ss))

\* column names after DataFrame.merge: an overlapping non-key column gets the
\* suffix of its side
LeftName(c, rcols, on, lsuf) == IF c \notin on /\ c \in rcols THEN c \o lsuf ELSE c
RightName(c, lcols, rsuf) == IF c \in lcols THEN c \o rsuf ELSE c

MergeColumns(lcols, rcols, on, lsuf, rsuf) ==
    {LeftName(c, rcols, on, lsuf) : c \in lcols}
        \cup {RightName(c, lcols, rsuf) : c \in rcols \ on}

\* one output row of a left merge; matched = FALSE leaves the right columns NaN
MergeRow(l, r, matched, lcols, rcols, on, lsuf, rsuf) ==
    [n \in MergeColumns(lcols, rcols, on, lsuf, rsuf) |->
        IF \E c \in lcols : LeftName(c, rcols, on, lsuf) = n
        THEN l[CHOOSE c \in lcols : LeftName(c, rcols, on, lsuf) = n]
        ELSE IF matched
             THEN r[CHOOSE c \in rcols \ on : RightName(c, lcols, rsuf) = n]
             ELSE NULL]

\* left.merge(right, on=on, how="left", suffixes=(lsuf, rsuf)): the left order is
\* kept, and a left row matching k > 0 right rows yields k rows
LeftMerge(left, right, on, lsuf, rsuf) ==
    LET Matches(l) == SelectSeq(right.rows, LAMBDA r : \A k \in on : r[k] = l[k])
        RowsOf(l) ==
            LET ms == Matches(l)
            IN  IF ms = << >>
                THEN << MergeRow(l, l, FALSE, left.cols, right.cols, on, lsuf, rsuf) >>
                ELSE [j \in DOMAIN ms |->
                        MergeRow(l, ms[j], TRUE, left.cols, right.cols, on, lsuf, rsuf)]
    IN  Frame(MergeColumns(left.cols, right.cols, on, lsuf, rsuf),
              Flatten([i \in DOMAIN left.rows |-> RowsOf(left.rows[i])]))

-----------------------------------------------------------------------------
(* Input tables, as fetch_market_data and load_card_attributes hand them over *)

MarketPricesColumns == {"card_sku_id", "updated_at", "low", "market", "lowest_list", "direct_low"}
SalesHistoryColumns == {"id", "card_sku_id", "order_date", "price", "quantity"}
ListingsColumns == {"card_sku_id", "updated_at", "price", "quantity",
                    "direct_inventory_count", "is_low_inventory"}
CardColumns == {"card_sku_id", "set_name", "product_name", "rarity", "condition"}

\* the snapshots a market_prices row can carry
PriceOptions ==
    << [low |-> NULL, market |-> NULL, lowest_list |-> NULL, direct_low |-> NULL],
       [low |-> 1, market |-> 1, lowest_list |-> 1, direct_low |-> 1],
       [low |-> 2, market |-> NULL, lowest_list |-> 2, direct_low |-> 0] >>
\* the sale prices a sales_history row can carry (quantity 1)
SalePriceOptions == << 50, 200 >>
\* the states a listings row can carry
ListingOptions ==
    << [price |-> NULL, quantity |-> NULL, direct_inventory_count |-> NULL],
       [price |-> 5, quantity |-> 2, direct_inventory_count |-> 9],
       [price |-> 5, quantity |-> 0, direct_inventory_count |-> 0] >>

LOW_INVENTORY_FETCH == 5

MarketPricesRow(k) ==
    [c \in MarketPricesColumns |->
        CASE c = "card_sku_id" -> k[1]
          [] c = "updated_at" -> k[2]
          [] OTHER -> PriceOptions[k[3]][c]]

SalesHistoryRow(k, i) ==
    [c \in SalesHistoryColumns |->
        CASE c = "id" -> i
          [] c = "card_sku_id" -> k[1]
          [] c = "order_date" -> k[2]
          [] c = "price" -> SalePriceOptions[k[3]]
          [] OTHER -> 1]

\* fetch_market_data adds is_low_inventory to listings
ListingsRow(k) ==
    [c \in ListingsColumns |->
        CASE c = "card_sku_id" -> k[1]
          [] c = "updated_at" -> k[2]
          [] c = "is_low_inventory" ->
                B(Le(ListingOptions[k[3]].direct_inventory_count, LOW_INVENTORY_FETCH))
          [] OTHER -> ListingOptions[k[3]][c]]

CardRow(sku) == [c \in CardColumns |-> IF c = "card_sku_id" THEN sku ELSE 0]

SeqsFromTo(S, lo, hi) == UNION {[1 .. k -> S] : k \in lo .. hi}
SeqsUpTo(S, n) == SeqsFromTo(S, 0, n)
Min2(a, b) == IF a < b THEN a ELSE b
\* the rows of an input table are enumerated in one order only (by key)
KeyRank(k) == (k[1] * (NumDays * TicksPerDay + 1) + k[2]) * 4 + k[3]
Ordered(s) == \A i \in 1 .. Len(s) - 1 : KeyRank(s[i]) <= KeyRank(s[i + 1])
\* the sequences of n keys of S that are Ordered
RECURSIVE OrderedSeqs(_, _)
OrderedSeqs(S, n) ==
    IF n = 0 THEN {<< >>}
    ELSE {Append(p[1], p[2]) :
            p \in {q \in OrderedSeqs(S, n - 1) \X S :
                      Len(q[1]) = 0 \/ KeyRank(q[1][Len(q[1])]) <= KeyRank(q[2])}}

MarketPricesFrame(ks) ==
    Frame(MarketPricesColumns, [i \in DOMAIN ks |-> MarketPricesRow(ks[i])])
SalesHistoryFrame(ks) ==
    Frame(SalesHistoryColumns, [i \in DOMAIN ks |-> SalesHistoryRow(ks[i], i)])
ListingsFrame(ks) ==
    Frame(ListingsColumns, [i \in DOMAIN ks |-> ListingsRow(ks[i])])
CardFrame(skus) ==
    Frame(CardColumns,
          Flatten([s \in 1 .. NumSkus |-> IF s \in skus THEN << CardRow(s) >> ELSE << >>]))

-----------------------------------------------------------------------------
(* merge_data: configuration (load_filters defaults) *)

extreme_outlier_multiplier == 100
low_inventory_threshold == 5
\* pd.date_range(start_date, end_date)
date_range == [i \in 1 .. NumDays |-> i - 1]

\* pd.to_datetime(ts).dt.tz_localize("US/Eastern").dt.strftime("%Y-%m-%d")
DateOf(ts) == ts \div TicksPerDay

ColumnValues(t, c) == {t.rows[i][c] : i \in DOMAIN t.rows}

\* t.sort_values("date"), rows of one date keep their order
SortByDate(t) ==
    Frame(t.cols,
          Flatten([d \in 1 .. NumDays + 1 |->
                      SelectSeq(t.rows, LAMBDA r : r["date"] = d - 1)]))

\* x.ffill().bfill() of column c within the rows of row i's card_sku_id
FfillBfill(t, c, i) ==
    LET same(j) == t.rows[j]["card_sku_id"] = t.rows[i]["card_sku_id"]
        known(j) == same(j) /\ ~IsNa(t.rows[j][c])
        before == {j \in 1 .. i : known(j)}
        after == {j \in i .. Len(t.rows) : known(j)}
        Max(S) == CHOOSE x \in S : \A y \in S : y <= x
        Min(S) == CHOOSE x \in S : \A y \in S : x <= y
    IN  IF before # {} THEN t.rows[Max(before)][c]
        ELSE IF after # {} THEN t.rows[Min(after)][c]
        ELSE NULL

\* clean_logs is not running
NoLogs == [log_dir |-> {}, before |-> {}, log_files |-> << >>, keep_latest |-> FALSE]

\* run_pipeline is not the caller
NoPipeline == [step |-> "none", log |-> << >>, csv |-> 0, result |-> "none"]

\* the components merge_data reads from the market_data dict
MarketTables == {"market_prices", "sales_history", "listings"}

InitMergeData ==
    \E m \in SeqsUpTo(Skus \X Times \X DOMAIN PriceOptions, MaxRows) :
      /\ Ordered(m)
      /\ \E s \in SeqsUpTo(Skus \X Times \X DOMAIN SalePriceOptions,
                           Min2(MaxRows, MaxTotalRows - Len(m))) :
          /\ Ordered(s)
          /\ \E l \in SeqsUpTo(Skus \X Times \X DOMAIN ListingOptions,
                               Min2(MaxRows, MaxTotalRows - Len(m) - Len(s))) :
              /\ Ordered(l)
              /\ \E a \in IF Len(m) + Len(s) + Len(l) <= 1 THEN {{}, Skus} ELSE {Skus} :
                 \E keys \in IF Len(m) + Len(s) + Len(l) = 0 /\ a = Skus
                              THEN SUBSET MarketTables ELSE {MarketTables} :
                  /\ market_data = [k \in keys |->
                                       CASE k = "market_prices" -> MarketPricesFrame(m)
                                         [] k = "sales_history" -> SalesHistoryFrame(s)
                                         [] OTHER -> ListingsFrame(l)]
                  /\ card_attributes = CardFrame(a)
    /\ pc = "validate"
    /\ outcome = "running"
    /\ market_prices = EmptyFrame
    /\ sales_history = EmptyFrame
    /\ listings = EmptyFrame
    /\ relevant_sku = {}
    /\ merged = EmptyFrame
    /\ dropped = {}
    /\ df = EmptyFrame
    /\ df_cleaned = EmptyFrame
    /\ df_again = EmptyFrame
    /\ method = "none"
    /\ pipeline = NoPipeline
    /\ logs = NoLogs

\* except Exception as e: ... raise
Raise(e) ==
    /\ pc' = "done"
    /\ outcome' = e

\* lines 79-89: an empty dict, an empty card_attributes or a component that
\* market_data.get() does not find
InvalidInputs ==
    \/ DOMAIN market_data = {}
    \/ NRows(card_attributes) = 0
    \/ ~(MarketTables \subseteq DOMAIN market_data)

\* lines 78-101: input validation, the local bindings alias the caller's frames
MergeValidate ==
    /\ pc = "validate"
    /\ IF InvalidInputs
       THEN /\ Raise("ValueError")
            /\ UNCHANGED << market_prices, sales_history, listings >>
       ELSE /\ pc' = "normalize"
            /\ market_prices' = market_data.market_prices
            /\ sales_history' = market_data.sales_history
            /\ listings' = market_data.listings
            /\ UNCHANGED outcome
    /\ UNCHANGED << market_data, card_attributes, relevant_sku, merged, dropped,
                    df, df_cleaned, df_again, method >>
    /\ UNCHANGED << pipeline, logs >>

WithDate(t, stamp) == Assign(t, "date", LAMBDA i : DateOf(t.rows[i][stamp]))

\* a slip that takes the scope from the price snapshots alone
RelevantSkuPricesOnly(mp, sh) == ColumnValues(mp, "card_sku_id")

\* line 104: set(market_prices["card_sku_id"]).union(set(sales_history["card_sku_id"]))
RelevantSku(mp, sh) ==
    ColumnValues(mp, "card_sku_id") \cup ColumnValues(sh, "card_sku_id")

\* lines 103-111: entity scope, attribute filter, date normalisation in place
NormalizeDates ==
    /\ pc = "normalize"
    /\ LET skus == RelevantSku(market_prices, sales_history)
       IN  /\ relevant_sku' = skus
           /\ card_attributes' = Where(card_attributes, LAMBDA r : r["card_sku_id"] \in skus)
    /\ market_prices' = WithDate(market_prices, "updated_at")
    /\ listings' = WithDate(listings, "updated_at")
    /\ sales_history' = WithDate(sales_history, "order_date")
    /\ market_data' = [market_prices |-> market_prices',
                       sales_history |-> sales_history',
                       listings |-> listings']
    /\ pc' = "prices"
    /\ UNCHANGED << outcome, merged, dropped, df, df_cleaned, df_again, method >>
    /\ UNCHANGED << pipeline, logs >>

NaFlag(t, name, c) == Assign(t, name, LAMBDA i : B(IsNa(t.rows[i][c])))

\* lines 113-118: a sorted copy; market is forward- then back-filled per card_sku_id
PreprocessMarketPrices ==
    /\ pc = "prices"
    /\ LET sorted == SortByDate(market_prices)
           filled == Assign(sorted, "market", LAMBDA i : FfillBfill(sorted, "market", i))
       IN  market_prices' =
               NaFlag(NaFlag(NaFlag(filled, "is_direct_low_nan", "direct_low"),
                             "is_low_nan", "low"),
                      "is_lowest_list_nan", "lowest_list")
    /\ pc' = "listings"
    /\ UNCHANGED << outcome, market_data, card_attributes, sales_history, listings,
                    relevant_sku, merged, dropped, df, df_cleaned, df_again, method >>
    /\ UNCHANGED << pipeline, logs >>

FillColumn(t, c, w) == Assign(t, c, LAMBDA i : FillNa(t.rows[i][c], w))

\* lines 120-123: flags and zero-fill on the caller's listings frame
PreprocessListings ==
    /\ pc = "listings"
    /\ listings' = FillColumn(FillColumn(NaFlag(listings, "is_missing_day", "price"),
                                         "quantity", 0),
                              "direct_inventory_count", 0)
    /\ market_data' = [market_data EXCEPT !.listings = listings']
    /\ pc' = "sales"
    /\ UNCHANGED << outcome, card_attributes, market_prices, sales_history,
                    relevant_sku, merged, dropped, df, df_cleaned, df_again, method >>
    /\ UNCHANGED << pipeline, logs >>

IsExtremeOutlier(direct_low, price) ==
    Gt(direct_low, 0) /\ Gt(price, Mul(extreme_outlier_multiplier, direct_low))

\* lines 125-132: every sale is paired with every snapshot of its day and flagged
PreprocessSales ==
    /\ pc = "sales"
    /\ LET j == LeftMerge(sales_history,
                          Project(market_prices, {"card_sku_id", "date", "direct_low"}),
                          {"card_sku_id", "date"}, "_x", "_y")
           f == Assign(j, "is_extreme_outlier",
                       LAMBDA i : B(IsExtremeOutlier(j.rows[i]["direct_low"],
                                                     j.rows[i]["price"])))
       IN  sales_history' = DropColumns(f, {"direct_low"})
    /\ pc' = "join_prices"
    /\ UNCHANGED << outcome, market_data, card_attributes, market_prices, listings,
                    relevant_sku, merged, dropped, df, df_cleaned, df_again, method >>
    /\ UNCHANGED << pipeline, logs >>

\* lines 134-139: the grid, one row per card_sku_id in scope and date of the window
AllCombinations(skus) ==
    Frame({"card_sku_id", "date"},
          Flatten([s \in 1 .. NumSkus |->
                      IF s \in skus
                      THEN [i \in DOMAIN date_range |->
                               [card_sku_id |-> s, date |-> date_range[i]]]
                      ELSE << >>]))

\* lines 134-142
JoinMarketPrices ==
    /\ pc = "join_prices"
    /\ merged' = LeftMerge(AllCombinations(relevant_sku), market_prices,
                           {"card_sku_id", "date"}, "_x", "_y")
    /\ pc' = "join_listings"
    /\ UNCHANGED << outcome, market_data, card_attributes, market_prices, sales_history,
                    listings, relevant_sku, dropped, df, df_cleaned, df_again, method >>
    /\ UNCHANGED << pipeline, logs >>

\* lines 144-145
JoinListings ==
    /\ pc = "join_listings"
    /\ merged' = LeftMerge(merged, listings, {"card_sku_id", "date"}, "", "_listings")
    /\ pc' = "join_sales"
    /\ UNCHANGED << outcome, market_data, card_attributes, market_prices, sales_history,
                    listings, relevant_sku, dropped, df, df_cleaned, df_again, method >>
    /\ UNCHANGED << pipeline, logs >>

\* lines 147-152
JoinSales ==
    /\ pc = "join_sales"
    /\ merged' = LeftMerge(merged,
                           Project(sales_history,
                                   {"card_sku_id", "date", "quantity", "price",
                                    "is_extreme_outlier"}),
                           {"card_sku_id", "date"}, "_x", "_y")
    /\ pc' = "fill_sales"
    /\ UNCHANGED << outcome, market_data, card_attributes, market_prices, sales_history,
                    listings, relevant_sku, dropped, df, df_cleaned, df_again, method >>
    /\ UNCHANGED << pipeline, logs >>

\* lines 153-156
FillSales(t) ==
    LET q == Assign(t, "sales_quantity", LAMBDA i : FillNa(t.rows[i]["quantity"], 0))
        p == Assign(q, "sales_price", LAMBDA i : FillNa(q.rows[i]["price"], 0))
        e == FillColumn(p, "is_extreme_outlier", 0)
    IN  DropColumns(e, {"quantity", "price"})

\* lines 158-163
JoinAttributesAndFlag(t) ==
    LET a == LeftMerge(t, card_attributes, {"card_sku_id"}, "_x", "_y")
    IN  Assign(a, "is_low_inventory",
               LAMBDA i : B(Le(a.rows[i]["direct_inventory_count"], low_inventory_threshold)))

\* lines 174-175: the card_sku_ids whose direct_low is NaN in every row
AllNanSkus(t) ==
    {s \in ColumnValues(t, "card_sku_id") :
        \A i \in DOMAIN t.rows :
            t.rows[i]["card_sku_id"] = s => IsNa(t.rows[i]["direct_low"])}

\* lines 176-183
DropAllNan(t) ==
    LET f == Assign(t, "is_all_direct_low_nan",
                    LAMBDA i : B(t.rows[i]["card_sku_id"] \in AllNanSkus(t)))
    IN  Where(f, LAMBDA r : r["is_all_direct_low_nan"] = 0)

\* line 35: the default validation_multipliers of load_filters
validation_multipliers == << 25, 50, 100 >>

\* lines 195-198: the rows of t with direct_low > 0 whose sales_price exceeds
\* m * direct_low; t["sales_price"] is looked up by name
ValidationCount(t, m) ==
    Cardinality({i \in DOMAIN t.rows :
        /\ Gt(t.rows[i]["direct_low"], 0)
        /\ Gt(t.rows[i]["sales_price"], Mul(m, t.rows[i]["direct_low"]))})

\* lines 194-199: validation_stats, one count per multiplier, computed from
\* the table that is returned
ValidationStats(t) ==
    [k \in DOMAIN validation_multipliers |-> ValidationCount(t, validation_multipliers[k])]

\* lines 153-245: merged["quantity"] and merged["price"] are looked up by name
\* (KeyError when the column is not there); then the attribute join, the
\* low-inventory flag, the all-NaN drop and the return.  The diagnostics are
\* computed from the returned table after the drop (ValidationStats) and are
\* reported only when the function returns.  The recent-sales flag and the
\* other statistics are not modelled.
FillAndFinish ==
    /\ pc = "fill_sales"
    /\ IF {"quantity", "price"} \subseteq merged.cols
       THEN LET t == JoinAttributesAndFlag(FillSales(merged))
            IN  /\ dropped' = AllNanSkus(t)
                /\ merged' = DropAllNan(t)
                /\ pc' = "done"
                /\ outcome' = "returned"
       ELSE /\ Raise("KeyError")
            /\ UNCHANGED << merged, dropped >>
    /\ UNCHANGED << market_data, card_attributes, market_prices, sales_history,
                    listings, relevant_sku, df, df_cleaned, df_again, method >>
    /\ UNCHANGED << pipeline, logs >>

NextMergeData ==
    \/ MergeValidate
    \/ NormalizeDates
    \/ PreprocessMarketPrices
    \/ PreprocessListings
    \/ PreprocessSales
    \/ JoinMarketPrices
    \/ JoinListings
    \/ JoinSales
    \/ FillAndFinish

SpecMergeData == InitMergeData /\ [][NextMergeData]_vars

-----------------------------------------------------------------------------
(* remove_outliers *)

z_threshold == 6
MaxFilterRows == 5      \* rows of the frame given to remove_outliers
FilterGroups == {1, 2}
FilterPrices == {0, 1, 5}
Methods == {"zscore", "iqr", "percentile", "asymmetric_iqr"}

RECURSIVE SumSeq(_)
SumSeq(s) == IF s = << >> THEN 0 ELSE Head(s) + SumSeq(Tail(s))

RECURSIVE SortInts(_)
SortInts(s) ==
    IF s = << >> THEN << >>
    ELSE LET i == CHOOSE i \in DOMAIN s : \A j \in DOMAIN s : s[i] <= s[j]
         IN  << s[i] >> \o SortInts(SubSeq(s, 1, i - 1) \o SubSeq(s, i + 1, Len(s)))

\* a slip that takes the values of the whole column, without the groupby
GroupValuesAll(d, c, group_by, g) == [i \in DOMAIN d.rows |-> d.rows[i][c]]

\* the values of column c in the rows of d whose group_by column equals g
GroupValues(d, c, group_by, g) ==
    LET rs == SelectSeq(d.rows, LAMBDA r : r[group_by] = g)
    IN  [i \in DOMAIN rs |-> rs[i][c]]

\* den * Series.quantile(num / den), linear interpolation between order statistics
QuantileTimes(s, num, den) ==
    LET v == SortInts(s)
        h == (Len(v) - 1) * num
        i == h \div den
        r == h % den
    IN  IF r = 0 THEN den * v[i + 1] ELSE den * v[i + 1] + r * (v[i + 2] - v[i + 1])

\* (x - x.mean()).abs() / x.std() <= z for the value x of a group with values s;
\* x.std() is NaN for one value, and 0 / 0 is NaN for equal values: then False
ZscoreWithin(x, s, z) ==
    LET n == Len(s)
        S == SumSeq(s)
        SS == SumSeq([i \in DOMAIN s |-> s[i] * s[i]])
    IN  /\ n > 1
        /\ n * SS - S * S > 0
        /\ (n * x - S) * (n * x - S) * (n - 1) <= z * z * n * (n * SS - S * S)

\* a slip that excludes the bounds themselves
IqrWithinStrict(x, q1, q3) ==
    /\ 8 * x > 2 * q1 - 3 * (q3 - q1)
    /\ 8 * x < 2 * q3 + 3 * (q3 - q1)

\* Q1 - 1.5 * IQR <= x <= Q3 + 1.5 * IQR, with Q1 and Q3 held times 4
IqrWithin(x, q1, q3) ==
    /\ 8 * x >= 2 * q1 - 3 * (q3 - q1)
    /\ 8 * x <= 2 * q3 + 3 * (q3 - q1)

\* lines 27-44 of remove_outliers.  The helper columns are added and dropped
\* again: Q1 and Q3 hold 4 times the quartile (IQR and the two bounds are folded
\* into IqrWithin), lower_bound and upper_bound 100 times the percentile; the
\* zscore column is not stored (its test is ZscoreWithin)
RemoveOutliers(d, column, group_by, meth) ==
    LET vals(r) == GroupValues(d, column, group_by, r[group_by])
    IN  CASE meth = "zscore" ->
               Where(d, LAMBDA r : ZscoreWithin(r[column], vals(r), z_threshold))
          [] meth = "iqr" ->
               LET a == Assign(d, "Q1", LAMBDA i : QuantileTimes(vals(d.rows[i]), 1, 4))
                   b == Assign(a, "Q3", LAMBDA i : QuantileTimes(vals(d.rows[i]), 3, 4))
               IN  DropColumns(Where(b, LAMBDA r : IqrWithin(r[column], r["Q1"], r["Q3"])),
                               {"Q1", "Q3"})
          [] meth = "percentile" ->
               LET a == Assign(d, "lower_bound",
                               LAMBDA i : QuantileTimes(vals(d.rows[i]), 1, 100))
                   b == Assign(a, "upper_bound",
                               LAMBDA i : QuantileTimes(vals(d.rows[i]), 99, 100))
               IN  DropColumns(Where(b, LAMBDA r : /\ 100 * r[column] >= r["lower_bound"]
                                                   /\ 100 * r[column] <= r["upper_bound"]),
                               {"lower_bound", "upper_bound"})

FilterFrame(ks) ==
    Frame({"id", "card_sku_id", "price"},
          [i \in DOMAIN ks |-> [id |-> i, card_sku_id |-> ks[i][1], price |-> ks[i][2]]])

InitRemoveOutliers ==
    /\ \E ks \in SeqsFromTo(FilterGroups \X FilterPrices, 1, MaxFilterRows) :
          df = FilterFrame(ks)
    /\ method \in Methods
    /\ pipeline = NoPipeline
    /\ logs = NoLogs
    /\ pc = "filter"
    /\ outcome = "running"
    /\ market_data = [market_prices |-> EmptyFrame, sales_history |-> EmptyFrame,
                      listings |-> EmptyFrame]
    /\ card_attributes = EmptyFrame
    /\ market_prices = EmptyFrame
    /\ sales_history = EmptyFrame
    /\ listings = EmptyFrame
    /\ relevant_sku = {}
    /\ merged = EmptyFrame
    /\ dropped = {}
    /\ df_cleaned = EmptyFrame
    /\ df_again = EmptyFrame

\* remove_outliers(df, "price", "card_sku_id", method)
FilterOnce ==
    /\ pc = "filter"
    /\ IF method \in {"zscore", "iqr", "percentile"}
       THEN /\ df_cleaned' = RemoveOutliers(df, "price", "card_sku_id", method)
            /\ pc' = "filter_again"
            /\ UNCHANGED outcome
       ELSE /\ Raise("ValueError")
            /\ UNCHANGED df_cleaned
    /\ UNCHANGED << market_data, card_attributes, market_prices, sales_history, listings,
                    relevant_sku, merged, dropped, df, df_again, method >>
    /\ UNCHANGED << pipeline, logs >>

\* remove_outliers applied to its own output
FilterAgain ==
    /\ pc = "filter_again"
    /\ df_again' = RemoveOutliers(df_cleaned, "price", "card_sku_id", method)
    /\ pc' = "done"
    /\ outcome' = "returned"
    /\ UNCHANGED << market_data, card_attributes, market_prices, sales_history, listings,
                    relevant_sku, merged, dropped, df, df_cleaned, method >>
    /\ UNCHANGED << pipeline, logs >>

NextRemoveOutliers == FilterOnce \/ FilterAgain

SpecRemoveOutliers == InitRemoveOutliers /\ [][NextRemoveOutliers]_vars

-----------------------------------------------------------------------------
(* clean_data *)

MaxCleanRows == 4       \* rows of the sales_history given to clean_data

\* the (price, quantity) a sale event given to clean_data can carry
CleanSaleOptions ==
    << [price |-> 10, quantity |-> 2],
       [price |-> 20, quantity |-> 1],
       [price |-> 10, quantity |-> 0] >>

CleanSalesRow(k, i) ==
    [c \in SalesHistoryColumns |->
        CASE c = "id" -> i
          [] c = "card_sku_id" -> k[1]
          [] c = "order_date" -> k[2]
          [] OTHER -> CleanSaleOptions[k[3]][c]]

CleanSalesFrame(ks) ==
    Frame(SalesHistoryColumns, [i \in DOMAIN ks |-> CleanSalesRow(ks[i], i)])

RECURSIVE Fact(_)
Fact(n) == IF n <= 1 THEN 1 ELSE n * Fact(n - 1)
\* price_mean, price_median, price_75th, price_25th and price_weighted_avg are
\* held times Scale, which every count and every summed quantity divides
Scale == Fact(2 * MaxCleanRows)

\* what a caller's input can lack: a component of market_dfs, or a column of a table
Defects ==
    {<< "none", "none" >>}
        \cup {<< k, "absent" >> : k \in MarketTables}
        \cup {<< "card_df", c >> : c \in {"card_sku_id", "rarity"}}
        \cup {<< "market_prices", c >> : c \in {"card_sku_id", "updated_at"}}
        \cup {<< "sales_history", c >> : c \in SalesHistoryColumns}
        \cup {<< "listings", c >> : c \in {"card_sku_id", "updated_at", "direct_inventory_count"}}

\* table t named k as the caller passes it under defect x
Lacking(k, t, x) == IF x[1] = k THEN DropColumns(t, {x[2]}) ELSE t

InitCleanData ==
    /\ \E s \in UNION {OrderedSeqs(Skus \X (0 .. TicksPerDay) \X DOMAIN CleanSaleOptions, k) :
                            k \in 1 .. MaxCleanRows} :
        /\ Ordered(s)
        /\ \E m \in SeqsUpTo({<< 1, 0, 2 >>}, 1), l \in SeqsUpTo({<< 1, 0, 1 >>, << 1, 0, 2 >>, << 1, 0, 3 >>}, 1) :
           \E x \in IF Len(s) = 1 THEN Defects ELSE {<< "none", "none" >>} :
              /\ market_data =
                    [k \in {t \in MarketTables : x # << t, "absent" >>} |->
                        CASE k = "market_prices" -> Lacking(k, MarketPricesFrame(m), x)
                          [] k = "sales_history" -> Lacking(k, CleanSalesFrame(s), x)
                          [] OTHER -> Lacking(k, ListingsFrame(l), x)]
              /\ card_attributes = Lacking("card_df", CardFrame(Skus), x)
    /\ pc = "clean_validate"
    /\ outcome = "running"
    /\ market_prices = EmptyFrame
    /\ sales_history = EmptyFrame
    /\ listings = EmptyFrame
    /\ relevant_sku = {}
    /\ merged = EmptyFrame
    /\ dropped = {}
    /\ df = EmptyFrame
    /\ df_cleaned = EmptyFrame
    /\ df_again = EmptyFrame
    /\ method = "none"
    /\ pipeline = NoPipeline
    /\ logs = NoLogs

\* a slip that lets the exception reach the caller, as merge_data does
ReturnRaise ==
    /\ pc' = "done"
    /\ outcome' = "KeyError"

\* lines 70-72, 75-77, 88-90 and 163-166: logger.error(...); log_error(...);
\* return None
ReturnNone ==
    /\ pc' = "done"
    /\ outcome' = "None"

\* lines 68-82: the card table has card_sku_id and market_dfs has the three tables
CleanValidate ==
    /\ pc = "clean_validate"
    /\ IF "card_sku_id" \in card_attributes.cols /\ MarketTables \subseteq DOMAIN market_data
       THEN pc' = "clean_market_prices" /\ UNCHANGED outcome
       ELSE ReturnNone
    /\ UNCHANGED << market_data, card_attributes, market_prices, sales_history, listings,
                    relevant_sku, merged, dropped, df, df_cleaned, df_again, method >>
    /\ UNCHANGED << pipeline, logs >>

\* lines 86-90 and 130-137 for market_prices: the date column is written into the
\* caller's frame; a table without card_sku_id returns None at line 90, one without
\* updated_at raises KeyError at line 132, which lines 163-166 turn into None
CleanMarketPrices ==
    /\ pc = "clean_market_prices"
    /\ IF {"card_sku_id", "updated_at"} \subseteq market_data.market_prices.cols
       THEN /\ market_prices' = WithDate(market_data.market_prices, "updated_at")
            /\ market_data' = [market_data EXCEPT !.market_prices = market_prices']
            /\ pc' = "clean_filter_sales"
            /\ UNCHANGED outcome
       ELSE /\ ReturnNone
            /\ UNCHANGED << market_data, market_prices >>
    /\ UNCHANGED << card_attributes, sales_history, listings, relevant_sku, merged,
                    dropped, df, df_cleaned, df_again, method >>
    /\ UNCHANGED << pipeline, logs >>

\* a slip that keeps the zscore result instead of the IQR result
SelectedSalesZscore(d) == RemoveOutliers(d, "price", "card_sku_id", "zscore")

\* lines 97-110: of the three filtered copies, df = df_iqr is the one kept
SelectedSales(d) == RemoveOutliers(d, "price", "card_sku_id", "iqr")

\* lines 86-110 for sales_history (the zscore and percentile results are only
\* logged); without the price column line 93 raises KeyError, caught at 163
CleanFilterSales ==
    /\ pc = "clean_filter_sales"
    /\ IF {"card_sku_id", "price"} \subseteq market_data.sales_history.cols
       THEN /\ df' = market_data.sales_history
            /\ df_cleaned' = SelectedSales(market_data.sales_history)
            /\ pc' = "clean_aggregate_sales"
            /\ UNCHANGED outcome
       ELSE /\ ReturnNone
            /\ UNCHANGED << df, df_cleaned >>
    /\ UNCHANGED << market_data, card_attributes, market_prices, sales_history, listings,
                    relevant_sku, merged, dropped, df_again, method >>
    /\ UNCHANGED << pipeline, logs >>

\* lines 112-113
WithSalesValue(d) ==
    LET a == WithDate(d, "order_date")
    IN  Assign(a, "sales_value", LAMBDA i : Mul(a.rows[i]["price"], a.rows[i]["quantity"]))

MaxOf(s) == CHOOSE x \in {s[i] : i \in DOMAIN s} : \A i \in DOMAIN s : s[i] <= x
MinOf(s) == CHOOSE x \in {s[i] : i \in DOMAIN s} : \A i \in DOMAIN s : x <= s[i]

\* a slip that leaves out replace(0, pd.NA) and yields 0 for no quantity
WeightedAvgZero(sales_value, quantity) ==
    IF quantity = 0 THEN 0 ELSE (sales_value * Scale) \div quantity

\* sales_value / quantity.replace(0, pd.NA), times Scale
WeightedAvg(sales_value, quantity) ==
    IF quantity = 0 THEN NULL ELSE (sales_value * Scale) \div quantity

\* lines 114-128: the row of one (card_sku_id, date) group rs (price_std is not held)
AggregateRow(sku, date, rs) ==
    LET col(c) == [i \in DOMAIN rs |-> rs[i][c]]
        prices == col("price")
        quantity == SumSeq(col("quantity"))
    IN  [card_sku_id |-> sku,
         date |-> date,
         quantity |-> quantity,
         price_mean |-> (SumSeq(prices) * Scale) \div Len(rs),
         price_max |-> MaxOf(prices),
         price_min |-> MinOf(prices),
         price_median |-> QuantileTimes(prices, 1, 2) * (Scale \div 2),
         price_75th |-> QuantileTimes(prices, 3, 4) * (Scale \div 4),
         price_25th |-> QuantileTimes(prices, 1, 4) * (Scale \div 4),
         sales_count |-> Len(SelectSeq(col("id"), LAMBDA v : ~IsNa(v))),
         price_weighted_avg |-> WeightedAvg(SumSeq(col("sales_value")), quantity)]

AggregateColumns == {"card_sku_id", "date", "quantity", "price_mean", "price_max",
                     "price_min", "price_median", "price_75th", "price_25th",
                     "sales_count", "price_weighted_avg"}

\* d.groupby(["card_sku_id", "date"]).agg(...).reset_index(): one row per group
\* that has rows, in key order
Aggregate(d) ==
    LET group(s, t) == SelectSeq(d.rows, LAMBDA r : r["card_sku_id"] = s /\ r["date"] = t)
    IN  Frame(AggregateColumns,
              Flatten([s \in 1 .. NumSkus |->
                  Flatten([t \in 1 .. NumDays + 1 |->
                      IF group(s, t - 1) = << >> THEN << >>
                      ELSE << AggregateRow(s, t - 1, group(s, t - 1)) >>])]))

\* lines 111-129 and 137; date and sales_value are written into df_iqr; without
\* order_date, quantity or id lines 112-114 raise KeyError, caught at 163
CleanAggregateSales ==
    /\ pc = "clean_aggregate_sales"
    /\ IF {"order_date", "quantity", "id"} \subseteq df_cleaned.cols
       THEN /\ df_cleaned' = WithSalesValue(df_cleaned)
            /\ sales_history' = Aggregate(df_cleaned')
            /\ pc' = "clean_listings"
            /\ UNCHANGED outcome
       ELSE /\ ReturnNone
            /\ UNCHANGED << df_cleaned, sales_history >>
    /\ UNCHANGED << market_data, card_attributes, market_prices, listings,
                    relevant_sku, merged, dropped, df, df_again, method >>
    /\ UNCHANGED << pipeline, logs >>

\* lines 86-90 and 130-137 for listings, written into the caller's frame; without
\* updated_at or direct_inventory_count lines 132, 135 raise KeyError, caught at 163
CleanListings ==
    /\ pc = "clean_listings"
    /\ IF {"card_sku_id", "updated_at", "direct_inventory_count"}
               \subseteq market_data.listings.cols
       THEN /\ LET a == WithDate(market_data.listings, "updated_at")
               IN  listings' = Assign(a, "dropshipper_out_of_stock",
                                      LAMBDA i : B(a.rows[i]["direct_inventory_count"] = 0))
            /\ market_data' = [market_data EXCEPT !.listings = listings']
            /\ pc' = "clean_merge"
            /\ UNCHANGED outcome
       ELSE /\ ReturnNone
            /\ UNCHANGED << market_data, listings >>
    /\ UNCHANGED << card_attributes, market_prices, sales_history, relevant_sku, merged,
                    dropped, df, df_cleaned, df_again, method >>
    /\ UNCHANGED << pipeline, logs >>

\* lines 139-145: market_prices is merged on card_sku_id, then sales_history and
\* listings on (card_sku_id, date)
MergeProcessed(cards, mp, sh, ls) ==
    LET m1 == LeftMerge(Project(cards, CardColumns), mp, {"card_sku_id"}, "", "_market_prices")
        m2 == LeftMerge(m1, sh, {"card_sku_id", "date"}, "", "_sales_history")
    IN  LeftMerge(m2, ls, {"card_sku_id", "date"}, "", "_listings")

CleanMerge ==
    /\ pc = "clean_merge"
    /\ IF CardColumns \subseteq card_attributes.cols
       THEN /\ merged' = MergeProcessed(card_attributes, market_prices, sales_history, listings)
            /\ pc' = "clean_finish"
            /\ UNCHANGED outcome
       ELSE /\ ReturnNone
            /\ UNCHANGED merged
    /\ UNCHANGED << market_data, card_attributes, market_prices, sales_history, listings,
                    relevant_sku, dropped, df, df_cleaned, df_again, method >>
    /\ UNCHANGED << pipeline, logs >>

\* lines 147-150: merged_df.dropna(subset=sql_columns, how="all")
DropNoData(t) ==
    Where(t, LAMBDA r : \E c \in t.cols \ CardColumns : ~IsNa(r[c]))

\* lines 153-157: the columns named price_listings... or quantity_listings... are
\* zero-filled (the merge suffix _listings ends the name, so the two names are
\* the only ones that can start so)
FillListings(t) ==
    LET cs == {"price_listings", "quantity_listings"} \cap t.cols
    IN  Frame(t.cols,
              [i \in DOMAIN t.rows |->
                  [c \in t.cols |-> IF c \in cs THEN FillNa(t.rows[i][c], 0)
                                    ELSE t.rows[i][c]]])

\* lines 147-161
CleanFinish ==
    /\ pc = "clean_finish"
    /\ merged' = FillListings(DropNoData(merged))
    /\ pc' = "done"
    /\ outcome' = "returned"
    /\ UNCHANGED << market_data, card_attributes, market_prices, sales_history, listings,
                    relevant_sku, dropped, df, df_cleaned, df_again, method >>
    /\ UNCHANGED << pipeline, logs >>

NextCleanData ==
    \/ CleanValidate
    \/ CleanMarketPrices
    \/ CleanFilterSales
    \/ CleanAggregateSales
    \/ CleanListings
    \/ CleanMerge
    \/ CleanFinish

SpecCleanData == InitCleanData /\ [][NextCleanData]_vars

-----------------------------------------------------------------------------
(* run_pipeline(fetch_data=True, run_merge_data=True) *)

MaxPipelineRows == 1    \* rows of each table fetch_market_data returns

\* step s succeeded and run_pipeline goes on to position next
PipelineOk(p, s, next) == [p EXCEPT !.step = next, !.log = Append(@, << s, "ok" >>)]

\* a slip that logs the failure and carries on to the return
PipelineFailSwallowed(p, s) ==
    [p EXCEPT !.step = "done", !.log = Append(@, << s, "failed" >>), !.result = "returned"]

\* lines 48-50, 58-60, 78-80: except Exception: logger.error(...); raise
PipelineFail(p, s) ==
    [p EXCEPT !.step = "done", !.log = Append(@, << s, "failed" >>), !.result = "raised"]

InitPipeline ==
    /\ pipeline = [step |-> "fetch", log |-> << >>, csv |-> 0, result |-> "running"]
    /\ logs = NoLogs
    /\ pc = "idle"
    /\ outcome = "running"
    /\ market_data = [k \in {} |-> EmptyFrame]
    /\ card_attributes = EmptyFrame
    /\ market_prices = EmptyFrame
    /\ sales_history = EmptyFrame
    /\ listings = EmptyFrame
    /\ relevant_sku = {}
    /\ merged = EmptyFrame
    /\ dropped = {}
    /\ df = EmptyFrame
    /\ df_cleaned = EmptyFrame
    /\ df_again = EmptyFrame
    /\ method = "none"

\* lines 39-50: fetch_market_data returns None after an error (its lines 147-154),
\* and market_data.get at line 45 then raises AttributeError, or it returns the
\* dict of the three tables
PipelineFetch ==
    /\ pipeline.step = "fetch"
    /\ \/ /\ pipeline' = PipelineFail(pipeline, "fetch")
          /\ UNCHANGED market_data
       \/ \E m \in SeqsUpTo(Skus \X Times \X DOMAIN PriceOptions, MaxPipelineRows),
             s \in SeqsUpTo(Skus \X Times \X DOMAIN SalePriceOptions, MaxPipelineRows),
             l \in SeqsUpTo(Skus \X Times \X DOMAIN ListingOptions, MaxPipelineRows) :
            /\ market_data' = [market_prices |-> MarketPricesFrame(m),
                               sales_history |-> SalesHistoryFrame(s),
                               listings |-> ListingsFrame(l)]
            /\ pipeline' = PipelineOk(pipeline, "fetch", "load")
    /\ UNCHANGED << pc, outcome, card_attributes, market_prices, sales_history, listings,
                    relevant_sku, merged, dropped, df, df_cleaned, df_again, method >>
    /\ UNCHANGED logs

\* lines 52-65: load_card_attributes raises (no CSV file) or returns the table;
\* then merge_data is called
PipelineLoad ==
    /\ pipeline.step = "load"
    /\ \/ /\ pipeline' = PipelineFail(pipeline, "load")
          /\ UNCHANGED << pc, card_attributes >>
       \/ \E a \in {{}, Skus} :
            /\ card_attributes' = CardFrame(a)
            /\ pipeline' = PipelineOk(pipeline, "load", "merge")
            /\ pc' = "validate"
    /\ UNCHANGED << outcome, market_data, market_prices, sales_history, listings,
                    relevant_sku, merged, dropped, df, df_cleaned, df_again, method >>
    /\ UNCHANGED logs

\* lines 66-84: merge_data has raised, or it has returned and the CSV is written
\* (to_csv can raise) before run_pipeline returns merged_data
PipelineSave ==
    /\ pipeline.step = "merge"
    /\ pc = "done"
    /\ IF outcome = "returned"
       THEN LET p == PipelineOk(pipeline, "merge", "save")
            IN  \/ pipeline' = PipelineFail(p, "save")
                \/ pipeline' = [PipelineOk(p, "save", "done") EXCEPT
                                    !.csv = @ + 1, !.result = "returned"]
       ELSE pipeline' = PipelineFail(pipeline, "merge")
    /\ UNCHANGED << pc, outcome, market_data, card_attributes, market_prices,
                    sales_history, listings, relevant_sku, merged, dropped, df,
                    df_cleaned, df_again, method >>
    /\ UNCHANGED logs

NextPipeline ==
    \/ PipelineFetch
    \/ PipelineLoad
    \/ NextMergeData
    \/ PipelineSave

SpecPipeline == InitPipeline /\ [][NextPipeline]_vars

-----------------------------------------------------------------------------
(* clean_logs(log_dir, keep_latest) *)

MaxLogFiles == 3        \* files in the log directory
MaxMtime == 2           \* distinct modification times

\* a file of the directory: whether its name matches mtg_price_predictor_*.log,
\* and its modification time
LogFiles ==
    [name : 1 .. MaxLogFiles, matches : BOOLEAN, mtime : 1 .. MaxMtime]

\* the directories with at most one file per name: each name is absent or has
\* a match flag and a modification time
LogDirs ==
    {{f \in LogFiles : a[f.name] = << f.matches, f.mtime >>} :
        a \in [1 .. MaxLogFiles -> {<< >>} \cup (BOOLEAN \X (1 .. MaxMtime))]}

\* glob.glob(...) returns the matching files in an order of its own
GlobOrders(d) ==
    LET matching == {f \in d : f.matches}
    IN  {o \in [1 .. Cardinality(matching) -> matching] :
            \A i, j \in DOMAIN o : o[i] = o[j] => i = j}

\* a slip that keeps the first file glob returned
LatestFileFirst(files) == files[1]

\* line 33: max(log_files, key=os.path.getmtime), the first of the greatest
LatestFile(files) ==
    files[CHOOSE i \in DOMAIN files :
            \A j \in DOMAIN files :
                /\ files[j].mtime <= files[i].mtime
                /\ j < i => files[j].mtime < files[i].mtime]

\* line 34: log_files.remove(latest_file)
ListRemove(files, f) == SelectSeq(files, LAMBDA g : g # f)

InitCleanLogs ==
    /\ \E d \in LogDirs, k \in BOOLEAN :
          logs = [log_dir |-> d, before |-> d, log_files |-> << >>, keep_latest |-> k]
    /\ pc = "logs_glob"
    /\ outcome = "running"
    /\ market_data = [k \in {} |-> EmptyFrame]
    /\ card_attributes = EmptyFrame
    /\ market_prices = EmptyFrame
    /\ sales_history = EmptyFrame
    /\ listings = EmptyFrame
    /\ relevant_sku = {}
    /\ merged = EmptyFrame
    /\ dropped = {}
    /\ df = EmptyFrame
    /\ df_cleaned = EmptyFrame
    /\ df_again = EmptyFrame
    /\ method = "none"
    /\ pipeline = NoPipeline

\* lines 19-35: glob; nothing found returns True; keep_latest takes the latest
\* file off the list
CleanLogsGlob ==
    /\ pc = "logs_glob"
    /\ \E o \in GlobOrders(logs.log_dir) :
          IF o = << >>
          THEN /\ pc' = "done"
               /\ outcome' = "True"
               /\ UNCHANGED logs
          ELSE /\ logs' = [logs EXCEPT !.log_files =
                              IF logs.keep_latest THEN ListRemove(o, LatestFile(o)) ELSE o]
               /\ pc' = "logs_remove"
               /\ UNCHANGED outcome
    /\ UNCHANGED << market_data, card_attributes, market_prices, sales_history, listings,
                    relevant_sku, merged, dropped, df, df_cleaned, df_again, method,
                    pipeline >>

\* lines 38-40 and 45-47: os.remove of the next file deletes it, or raises and
\* clean_logs returns False
CleanLogsRemove ==
    /\ pc = "logs_remove"
    /\ logs.log_files # << >>
    /\ \/ /\ logs' = [logs EXCEPT !.log_dir = @ \ {Head(logs.log_files)},
                                  !.log_files = Tail(@)]
          /\ UNCHANGED << pc, outcome >>
       \/ /\ pc' = "done"
          /\ outcome' = "False"
          /\ UNCHANGED logs
    /\ UNCHANGED << market_data, card_attributes, market_prices, sales_history, listings,
                    relevant_sku, merged, dropped, df, df_cleaned, df_again, method,
                    pipeline >>

\* lines 42-43: every file of the list is deleted, return True
CleanLogsReturn ==
    /\ pc = "logs_remove"
    /\ logs.log_files = << >>
    /\ pc' = "done"
    /\ outcome' = "True"
    /\ UNCHANGED << market_data, card_attributes, market_prices, sales_history, listings,
                    relevant_sku, merged, dropped, df, df_cleaned, df_again, method,
                    pipeline, logs >>

NextCleanLogs ==
    \/ CleanLogsGlob
    \/ CleanLogsRemove
    \/ CleanLogsReturn

SpecCleanLogs == InitCleanLogs /\ [][NextCleanLogs]_vars

-----------------------------------------------------------------------------
(* Properties of merge_data, checked under SpecMergeData *)

\* merge_data got past its input validation and has stopped; merged is the table
\* it has built (the one it returns when it returns)
TableBuilt == pc = "done" /\ outcome \in {"returned", "KeyError"}

Window == {date_range[i] : i \in DOMAIN date_range}
PriceFields == {"low", "market", "lowest_list", "direct_low"}
Field(r, c, alt) == IF c \in DOMAIN r THEN r[c] ELSE r[alt]
\* the rows the caller's frame t holds for card_sku_id s on date d
InputRows(t, s, d) == {i \in DOMAIN t.rows : t.rows[i]["card_sku_id"] = s /\ t.rows[i]["date"] = d}
\* the known values of price field c for s on date d
Observed(s, d, c) ==
    {market_data.market_prices.rows[i][c] : i \in InputRows(market_data.market_prices, s, d)}
        \ {NULL}
MaxSet(S) == CHOOSE x \in S : \A y \in S : y <= x
MinSet(S) == CHOOSE x \in S : \A y \in S : x <= y

\* C1: no (card_sku_id, date) pair occurs in more than one row of the table
\* merge_data builds
C1_UniqueKeys ==
    TableBuilt =>
        \A i, j \in DOMAIN merged.rows :
            (/\ merged.rows[i]["card_sku_id"] = merged.rows[j]["card_sku_id"]
             /\ merged.rows[i]["date"] = merged.rows[j]["date"]) => i = j

\* C2: the table holds a row for every date of the window for every entity in
\* scope that is not dropped, and its row count is (entities in scope minus
\* dropped entities) times (days in window)
C2_GridDensity ==
    TableBuilt =>
        /\ \A s \in relevant_sku \ dropped : \A d \in Window :
              \E i \in DOMAIN merged.rows :
                  merged.rows[i]["card_sku_id"] = s /\ merged.rows[i]["date"] = d
        /\ NRows(merged) = Cardinality(relevant_sku \ dropped) * NumDays

\* C3: on a date of the window without a price snapshot of the entity, each
\* price field of the row holds the entity's most recent earlier known value,
\* or, when there is none, its next later known value
C3_GapFill ==
    TableBuilt =>
        \A i \in DOMAIN merged.rows : \A c \in PriceFields :
            LET s == merged.rows[i]["card_sku_id"]
                d == merged.rows[i]["date"]
                earlier == {e \in Window : e < d /\ Observed(s, e, c) # {}}
                later == {e \in Window : e > d /\ Observed(s, e, c) # {}}
            IN  InputRows(market_data.market_prices, s, d) = {} =>
                    IF earlier # {} THEN merged.rows[i][c] \in Observed(s, MaxSet(earlier), c)
                    ELSE IF later # {} THEN merged.rows[i][c] \in Observed(s, MinSet(later), c)
                    ELSE TRUE

\* C4: a row whose (entity, date) has no listing row has listing quantity 0 and
\* direct_inventory_count 0, never null
C4_ListingZeroFill ==
    TableBuilt =>
        \A i \in DOMAIN merged.rows :
            LET r == merged.rows[i]
            IN  InputRows(market_data.listings, r["card_sku_id"], r["date"]) = {} =>
                    /\ Field(r, "quantity", "quantity_x") = 0
                    /\ r["direct_inventory_count"] = 0

\* direct_low of s is null on every date of the window
AllDirectLowNull(s) == \A d \in Window : Observed(s, d, "direct_low") = {}

\* C5: an entity in scope is absent from the table exactly when its direct_low
\* is null on every date of the window, and exactly those entities are written
\* to the dropped-entity list
C5_AllNanDrop ==
    TableBuilt =>
        /\ \A s \in relevant_sku :
              s \notin ColumnValues(merged, "card_sku_id") <=> AllDirectLowNull(s)
        /\ dropped = {s \in relevant_sku : AllDirectLowNull(s)}

\* C6: is_extreme_outlier of a row is true exactly when the row's direct_low > 0
\* and the row's sale price exceeds extreme_outlier_multiplier times the row's
\* direct_low
C6_ExtremeOutlierOfRow ==
    TableBuilt =>
        \A i \in DOMAIN merged.rows :
            LET r == merged.rows[i]
            IN  r["is_extreme_outlier"] = 1
                    <=> /\ r["direct_low"] > 0
                        /\ Field(r, "sales_price", "price_y")
                               > extreme_outlier_multiplier * r["direct_low"]

-----------------------------------------------------------------------------
(* Properties of clean_data, checked under SpecCleanData *)

\* the aggregator has produced its table
Aggregated ==
    /\ pc \in {"clean_listings", "clean_merge", "clean_finish", "done"}
    /\ sales_history.cols = AggregateColumns
Cleaned == pc = "done" /\ outcome = "returned"
ColumnOf(rs, c) == [i \in DOMAIN rs |-> rs[i][c]]
Elements(s) == {s[i] : i \in DOMAIN s}

\* the aggregates a row r must carry for the sale events g of its group
AggregatesOf(r, g) ==
    LET prices == ColumnOf(g, "price")
        n == Len(g)
        quantity == SumSeq(ColumnOf(g, "quantity"))
        value == SumSeq([i \in DOMAIN g |-> g[i]["price"] * g[i]["quantity"]])
        below == {i \in DOMAIN g : Scale * prices[i] < r["price_median"]}
        above == {i \in DOMAIN g : Scale * prices[i] > r["price_median"]}
    IN  /\ r["quantity"] = quantity
        /\ r["sales_count"] = n
        /\ r["price_mean"] * n = Scale * SumSeq(prices)
        /\ r["price_max"] \in Elements(prices)
        /\ r["price_min"] \in Elements(prices)
        /\ \A i \in DOMAIN g : r["price_min"] <= prices[i] /\ prices[i] <= r["price_max"]
        /\ 2 * Cardinality(below) <= n
        /\ 2 * Cardinality(above) <= n
        /\ quantity = 0 => IsNa(r["price_weighted_avg"])
        /\ quantity > 0 => r["price_weighted_avg"] * quantity = Scale * value
        /\ {<< g[i]["price"], g[i]["quantity"] >> : i \in DOMAIN g} = {<< 10, 2 >>, << 20, 1 >>}
             /\ n = 2
             => /\ r["quantity"] = 3
                /\ r["price_mean"] = 15 * Scale
                /\ 3 * r["price_weighted_avg"] = 40 * Scale

\* C7: the sale events handed to the aggregator yield exactly one row per
\* (entity, date) that has events, with quantity the summed quantity,
\* sales_count the number of events, price_mean/min/max/median of the prices and
\* price_weighted_avg = sum(price * quantity) / sum(quantity), null when the
\* summed quantity is zero
C7_Aggregation ==
    Aggregated =>
        \A s \in Skus : \A d \in 0 .. NumDays :
            LET g == SelectSeq(df_cleaned.rows,
                               LAMBDA e : e["card_sku_id"] = s /\ e["date"] = d)
                rows == {i \in DOMAIN sales_history.rows :
                            /\ sales_history.rows[i]["card_sku_id"] = s
                            /\ sales_history.rows[i]["date"] = d}
            IN  IF g = << >> THEN rows = {}
                ELSE /\ Cardinality(rows) = 1
                     /\ \A i \in rows : AggregatesOf(sales_history.rows[i], g)

\* a day with the events (10, qty 2), (20, qty 1) and a day whose summed quantity
\* is zero have been aggregated
C7_Witness ==
    /\ Cleaned
    /\ \E i \in DOMAIN sales_history.rows :
          /\ sales_history.rows[i]["sales_count"] = 2
          /\ sales_history.rows[i]["quantity"] = 3
          /\ sales_history.rows[i]["price_mean"] = 15 * Scale
    /\ \E i \in DOMAIN sales_history.rows : IsNa(sales_history.rows[i]["price_weighted_avg"])

\* the sale events the outlier filter keeps, out of the caller's sales_history
KeptEvents ==
    RemoveOutliers(Project(market_data.sales_history, SalesHistoryColumns),
                   "price", "card_sku_id", "iqr").rows
KeptIds == Elements(ColumnOf(KeptEvents, "id"))

\* C8: every (entity, date) sale aggregate in the output of clean_data is
\* computed from the events the outlier filter kept: an event the filter removed
\* contributes to no count, sum, mean, extremum or weighted average
C8_FilterThenAggregate ==
    Cleaned =>
        \A i \in DOMAIN merged.rows :
            LET r == merged.rows[i]
                g == SelectSeq(KeptEvents,
                               LAMBDA e : /\ e["card_sku_id"] = r["card_sku_id"]
                                          /\ DateOf(e["order_date"]) = r["date"])
            IN  ~IsNa(r["sales_count"]) => g # << >> /\ AggregatesOf(r, g)

\* the output holds the aggregate of a day on which the filter removed an event
C8_Witness ==
    /\ Cleaned
    /\ \E i \in DOMAIN merged.rows : \E j \in DOMAIN market_data.sales_history.rows :
          LET r == merged.rows[i]
              e == market_data.sales_history.rows[j]
          IN  /\ ~IsNa(r["sales_count"])
              /\ e["card_sku_id"] = r["card_sku_id"]
              /\ DateOf(e["order_date"]) = r["date"]
              /\ e["id"] \notin KeptIds

-----------------------------------------------------------------------------
(* Properties of remove_outliers, checked under SpecRemoveOutliers *)

RowsOfGroup(d, g) == SelectSeq(d.rows, LAMBDA r : r["card_sku_id"] = g)
\* the group has rows and one price only (its standard deviation is 0, or
\* undefined for a single row)
Degenerate(d, g) ==
    /\ RowsOfGroup(d, g) # << >>
    /\ Cardinality(Elements(ColumnOf(RowsOfGroup(d, g), "price"))) = 1

FilteredTwice == pc = "done" /\ outcome = "returned"

\* C9 as stated: the IQR filter applied to its own output removes no further row
C9_IqrIdempotent ==
    FilteredTwice /\ method = "iqr" => df_again = df_cleaned

\* C9 as amended: the IQR filter keeps a group of equal prices whole, and applied
\* to its own output it removes no row of a group from which the first
\* application removed none
C9_IqrStableGroups ==
    FilteredTwice /\ method = "iqr" =>
        \A g \in FilterGroups :
            /\ Degenerate(df, g) => RowsOfGroup(df_cleaned, g) = RowsOfGroup(df, g)
            /\ RowsOfGroup(df_cleaned, g) = RowsOfGroup(df, g)
                  => RowsOfGroup(df_again, g) = RowsOfGroup(df_cleaned, g)

\* a group of several prices passes both applications whole, next to a group of
\* equal prices that the filter keeps whole
C9_Witness ==
    /\ FilteredTwice
    /\ method = "iqr"
    /\ \E g, h \in FilterGroups :
          /\ RowsOfGroup(df, g) # << >>
          /\ ~Degenerate(df, g)
          /\ RowsOfGroup(df_again, g) = RowsOfGroup(df, g)
          /\ Degenerate(df, h)
          /\ Len(RowsOfGroup(df_cleaned, h)) > 1

\* C10: with method zscore every row of a group whose standard deviation is
\* zero or undefined is kept
C10_ZscoreKeepsDegenerate ==
    pc \in {"filter_again", "done"} /\ method = "zscore" =>
        \A g \in FilterGroups :
            Degenerate(df, g) => RowsOfGroup(df_cleaned, g) = RowsOfGroup(df, g)

-----------------------------------------------------------------------------
(* Further properties of merge_data, checked under SpecMergeData *)

\* a required source table is absent or has no rows (the entity scope is empty
\* when market_prices and sales_history both have none)
SourceTableMissing ==
    \/ \E k \in MarketTables : k \notin DOMAIN market_data
    \/ \E k \in MarketTables \cap DOMAIN market_data : NRows(market_data[k]) = 0
    \/ NRows(card_attributes) = 0

\* C11: when a required source table is absent or empty, or no entity is in
\* scope, merge_data ends with the validation error and has built no table
C11_Validation ==
    pc = "done" /\ SourceTableMissing => outcome = "ValueError" /\ merged = EmptyFrame

\* C12: no step of the call changes a table the caller passed in: the frames
\* held by the caller's market_data keep their columns and values (card_attributes
\* is only rebound to a filtered copy inside merge_data, which the caller does
\* not see)
C12_InputsNotMutated == [][market_data' = market_data]_vars

GridJoined == pc \in {"join_listings", "join_sales", "fill_sales"} \/ TableBuilt
\* the entities with a row in the caller's market_prices or sales_history
InScope ==
    {s \in Skus : \E k \in {"market_prices", "sales_history"} :
        \E i \in DOMAIN market_data[k].rows : market_data[k].rows[i]["card_sku_id"] = s}
ListingsOnly ==
    {s \in Skus \ InScope :
        \E i \in DOMAIN market_data.listings.rows :
            market_data.listings.rows[i]["card_sku_id"] = s}

\* C13: once the grid is built, the (card_sku_id, date) pairs of the table are
\* exactly the entities of market_prices or sales_history crossed with the days
\* of the window; an entity that only listings mention is in no row
C13_EntityScope ==
    GridJoined =>
        /\ {<< merged.rows[i]["card_sku_id"], merged.rows[i]["date"] >> :
               i \in DOMAIN merged.rows} = InScope \X Window
        /\ \A i \in DOMAIN merged.rows : merged.rows[i]["card_sku_id"] \notin ListingsOnly

\* the table is built for one entity in scope (through a sale only) while the
\* other entity has a listing only
C13_Witness ==
    /\ TableBuilt
    /\ ListingsOnly # {}
    /\ InScope # {}
    /\ market_data.market_prices.rows = << >>
    /\ merged.rows # << >>

\* C14: is_low_inventory of a row is true exactly when the row's
\* direct_inventory_count, taken as zero when the (entity, date) has no listing
\* row, is at most low_inventory_threshold
C14_LowInventoryFlag ==
    TableBuilt =>
        \A i \in DOMAIN merged.rows :
            LET r == merged.rows[i]
                count == IF InputRows(market_data.listings, r["card_sku_id"], r["date"]) = {}
                         THEN 0 ELSE r["direct_inventory_count"]
            IN  r["is_low_inventory"] = B(~IsNa(count) /\ count <= low_inventory_threshold)

\* C15: a row whose (entity, date) has no sale event has sales_quantity 0,
\* sales_price 0 and is_extreme_outlier false, never null
C15_SalesZeroFill ==
    TableBuilt =>
        \A i \in DOMAIN merged.rows :
            LET r == merged.rows[i]
            IN  InputRows(market_data.sales_history, r["card_sku_id"], r["date"]) = {} =>
                    /\ Field(r, "sales_quantity", "quantity_y") = 0
                    /\ Field(r, "sales_price", "price_y") = 0
                    /\ r["is_extreme_outlier"] = 0

\* C20: is_missing_day of a row is true exactly when the listing price the join
\* gave the row is null, so it is true for an (entity, date) without listing row
C20_MissingDayFlag ==
    TableBuilt =>
        \A i \in DOMAIN merged.rows :
            LET r == merged.rows[i]
            IN  r["is_missing_day"] = B(IsNa(Field(r, "price", "price_x")))

-----------------------------------------------------------------------------
(* Further properties of clean_data, checked under SpecCleanData *)

\* C16: the dropshipper out-of-stock flag of an output row is true exactly when
\* the row's direct_low is null, whatever its direct_inventory_count
C16_DropshipperFlag ==
    Cleaned =>
        \A i \in DOMAIN merged.rows :
            merged.rows[i]["dropshipper_out_of_stock"]
                = B(IsNa(merged.rows[i]["direct_low"]))

\* the columns clean_data reads by name from table k
RequiredColumns(k) ==
    CASE k = "market_prices" -> {"card_sku_id", "updated_at"}
      [] k = "sales_history" -> {"card_sku_id", "order_date", "price", "quantity", "id"}
      [] OTHER -> {"card_sku_id", "updated_at", "direct_inventory_count"}

\* the caller's input has the three tables and every column clean_data reads
WellFormed ==
    /\ CardColumns \subseteq card_attributes.cols
    /\ MarketTables \subseteq DOMAIN market_data
    /\ \A k \in MarketTables : RequiredColumns(k) \subseteq market_data[k].cols

\* C18: clean_data never ends with an exception; it returns None for a card
\* table without card_sku_id, for a market_dfs that lacks a table, for a table
\* without card_sku_id and when a step raises, and it returns a table only
\* when every step succeeded
C18_NeverRaises ==
    /\ outcome \in {"running", "None", "returned"}
    /\ pc = "done" => (outcome = "returned" <=> WellFormed)

\* an exception while aggregating (sales_history has no quantity column), after
\* the market_prices step has run, has ended in None
C18_Witness ==
    /\ pc = "done"
    /\ outcome = "None"
    /\ MarketTables \subseteq DOMAIN market_data
    /\ "quantity" \notin market_data.sales_history.cols
    /\ "date" \in market_data.market_prices.cols

-----------------------------------------------------------------------------
(* Further properties of remove_outliers, checked under SpecRemoveOutliers *)

\* Q1 - 1.5 * IQR <= x <= Q3 + 5.0 * IQR for the row r within its group of d
AsymmetricWithin(d, r) ==
    LET v == GroupValues(d, "price", "card_sku_id", r["card_sku_id"])
        q1 == QuantileTimes(v, 1, 4)
        q3 == QuantileTimes(v, 3, 4)
    IN  /\ 8 * r["price"] >= 2 * q1 - 3 * (q3 - q1)
        /\ 4 * r["price"] <= q3 + 5 * (q3 - q1)

\* C17: the method asymmetric_iqr filters: it returns the rows whose value lies
\* in [Q1 - 1.5 * IQR, Q3 + 5.0 * IQR] of their group instead of raising the
\* unknown-method error
C17_AsymmetricIqr ==
    pc = "done" /\ method = "asymmetric_iqr" =>
        /\ outcome = "returned"
        /\ df_cleaned.rows = SelectSeq(df.rows, LAMBDA r : AsymmetricWithin(df, r))

\* the prices of the rows of d in the group of row r
PricesOfGroup(d, r) ==
    LET g == RowsOfGroup(d, r["card_sku_id"]) IN [i \in DOMAIN g |-> g[i]["price"]]

\* the j-th smallest of the values v: fewer than j values are below it and at
\* least j are not above it
OrderStatistic(v, j) ==
    CHOOSE x \in Elements(v) :
        /\ Cardinality({i \in DOMAIN v : v[i] < x}) < j
        /\ Cardinality({i \in DOMAIN v : v[i] <= x}) >= j

\* 4 times the k-th quartile of v, interpolated linearly between the two order
\* statistics around position (Len(v) - 1) * k / 4
QuartileTimes4(v, k) ==
    LET i == ((Len(v) - 1) * k) \div 4
        r == ((Len(v) - 1) * k) % 4
    IN  IF r = 0 THEN 4 * OrderStatistic(v, i + 1)
        ELSE (4 - r) * OrderStatistic(v, i + 1) + r * OrderStatistic(v, i + 2)

\* Q1 - 1.5 * IQR <= price <= Q3 + 1.5 * IQR within the row's own unfiltered group
WithinIqrBounds(d, r) ==
    LET q1 == QuartileTimes4(PricesOfGroup(d, r), 1)
        q3 == QuartileTimes4(PricesOfGroup(d, r), 3)
    IN  /\ 2 * q1 - 3 * (q3 - q1) <= 8 * r["price"]
        /\ 8 * r["price"] <= 2 * q3 + 3 * (q3 - q1)

\* C21: remove_outliers(method='iqr') returns, in input order and with the
\* input's columns, exactly the rows whose price lies in
\* [Q1 - 1.5 * IQR, Q3 + 1.5 * IQR] of their own unfiltered group
C21_IqrResult ==
    pc \in {"filter_again", "done"} /\ method = "iqr" =>
        /\ df_cleaned.cols = df.cols
        /\ "card_sku_id" \in df_cleaned.cols
        /\ df_cleaned.rows = SelectSeq(df.rows, LAMBDA r : WithinIqrBounds(df, r))

\* two groups were filtered, a row was removed and a row of each group was kept
C21_Witness ==
    /\ pc = "done"
    /\ method = "iqr"
    /\ Len(df_cleaned.rows) < Len(df.rows)
    /\ \A g \in FilterGroups : RowsOfGroup(df_cleaned, g) # << >>

-----------------------------------------------------------------------------
(* Properties of run_pipeline, checked under SpecPipeline *)

PipelineSteps == << "fetch", "load", "merge", "save" >>

\* C19: run_pipeline takes its steps in the order fetch, load, merge, save, each
\* only after the one before succeeded; it returns only after the CSV is
\* written, and after a failed step it raises, writes no CSV and goes no further
C19_PipelineOrder ==
    LET log == pipeline.log
        failed == \E i \in DOMAIN log : log[i][2] = "failed"
    IN  /\ Len(log) <= Len(PipelineSteps)
        /\ \A i \in DOMAIN log :
              /\ log[i][1] = PipelineSteps[i]
              /\ i < Len(log) => log[i][2] = "ok"
        /\ (\E i \in DOMAIN log : log[i] = << "merge", "ok" >>) => outcome = "returned"
        /\ pipeline.csv > 0 => Len(log) = 4 /\ ~failed
        /\ pipeline.result = "returned" => pipeline.csv = 1 /\ outcome = "returned"
        /\ failed => pipeline.result = "raised" /\ pipeline.csv = 0 /\ pipeline.step = "done"
        /\ pipeline.step = "done" /\ pc = "done" /\ outcome # "returned"
              => pipeline.result = "raised"

\* fetch and load succeeded, merge_data raised, and run_pipeline has raised
\* without writing a CSV
C19_Witness ==
    /\ pipeline.step = "done"
    /\ pipeline.log = << << "fetch", "ok" >>, << "load", "ok" >>, << "merge", "failed" >> >>
    /\ pipeline.result = "raised"
    /\ pipeline.csv = 0
    /\ outcome = "KeyError"

-----------------------------------------------------------------------------
(* Properties of clean_logs, checked under SpecCleanLogs *)

Matching(d) == {f \in d : f.matches}

\* C22: clean_logs ends with True or False, never an exception; a file that does
\* not match the pattern is never deleted; after True on a directory that had a
\* matching file, with keep_latest exactly one matching file remains and none
\* of the matching files was modified later, and without keep_latest no
\* matching file remains
C22_CleanLogs ==
    /\ outcome \in {"running", "True", "False"}
    /\ logs.before \ Matching(logs.before) \subseteq logs.log_dir
    /\ logs.log_dir \subseteq logs.before
    /\ pc = "done" /\ outcome = "True" /\ Matching(logs.before) # {} =>
          IF logs.keep_latest
          THEN /\ Cardinality(Matching(logs.log_dir)) = 1
               /\ \A f \in Matching(logs.log_dir) : \A g \in Matching(logs.before) :
                      g.mtime <= f.mtime
          ELSE Matching(logs.log_dir) = {}

\* True was returned with keep_latest after older matching files were deleted
\* next to a file that does not match
C22_Witness ==
    /\ pc = "done"
    /\ outcome = "True"
    /\ logs.keep_latest
    /\ Cardinality(Matching(logs.before)) > 1
    /\ \E f, g \in Matching(logs.before) : f.mtime < g.mtime
    /\ logs.before # Matching(logs.before)


-----------------------------------------------------------------------------
(* Properties of the diagnostics of merge_data, checked under SpecMergeData *)

\* the count of lines 195-198 taken over the table as built, with the sale
\* price read from the column the sales merge produced when sales_price is
\* not there
BuiltCount(m) ==
    Cardinality({i \in DOMAIN merged.rows :
        LET r == merged.rows[i]
        IN  /\ Gt(r["direct_low"], 0)
            /\ Gt(Field(r, "sales_price", "price_y"), Mul(m, r["direct_low"]))})

PositiveDirectLow == {i \in DOMAIN merged.rows : Gt(merged.rows[i]["direct_low"], 0)}

\* the expression of lines 195-198 is monotone in the multiplier and bounded
\* by the rows with direct_low > 0, whatever table it is given
BuiltCountsMonotone ==
    TableBuilt =>
        \A i, j \in DOMAIN validation_multipliers :
            /\ validation_multipliers[i] <= validation_multipliers[j] =>
                   BuiltCount(validation_multipliers[i]) >= BuiltCount(validation_multipliers[j])
            /\ BuiltCount(validation_multipliers[i]) <= Cardinality(PositiveDirectLow)

BuiltCountsDiffer ==
    /\ TableBuilt
    /\ BuiltCount(25) > BuiltCount(50)
    /\ BuiltCount(100) > 0

\* C23: once merge_data has built its table from valid inputs it reports the
\* outlier-validation counts; the reported count for a multiplier m1 is at
\* least the count for every multiplier m2 >= m1, and every count is at most
\* the number of output rows with direct_low > 0
C23_ValidationCounts ==
    TableBuilt =>
        /\ outcome = "returned"
        /\ LET stats == ValidationStats(merged)
           IN  \A i, j \in DOMAIN validation_multipliers :
                   /\ validation_multipliers[i] <= validation_multipliers[j] =>
                          stats[i] >= stats[j]
                   /\ stats[i] <= Cardinality(PositiveDirectLow)

=============================================================================
